---- MODULE Spec2Model ----
(***************************************************************************)
(* A model of the external-process retrieval bridge of medical-rag:        *)
(* src/lib/rag-server.ts (queryFAISSVectorStore, checkRAGSystemStatus),    *)
(* the worker process it spawns, and the events Node delivers for it.      *)
(*                                                                         *)
(* Text (the worker's stdout) is a sequence of tokens, one token per       *)
(* lexical unit: a punctuation character, a JSON string literal, a number, *)
(* a literal (true/false/null), a newline, or a run of log text that       *)
(* holds no JSON punctuation.  JavaScript values are tagged records.       *)
(*                                                                         *)
(* Spec makes the calls one after the other, each with any query, topK and *)
(* worker behaviour; a field of a value or token is named after its type,  *)
(* so that records of different types never share a field.                 *)
(***************************************************************************)
EXTENDS Integers, Sequences, FiniteSets, TLC

(***************************************************************************)
(* JavaScript values.                                                      *)
(***************************************************************************)
Undef == [t |-> "undefined"]
Null == [t |-> "null"]
Bool(b) == [t |-> "bool", b |-> b]
Num(n) == [t |-> "num", n |-> n]
Str(s) == [t |-> "str", s |-> s]
\* An array: the sequence of its elements.
Arr(a) == [t |-> "arr", a |-> a]
\* An object: the sequence of its <<key, value>> members, in insertion order.
Obj(m) == [t |-> "obj", o |-> m]

\* ToBoolean: what `if (x)`, `x ? a : b` and `x || y` test.
Truthy(x) ==
  CASE x.t = "undefined" -> FALSE
    [] x.t = "null" -> FALSE
    [] x.t = "bool" -> x.b
    [] x.t = "num" -> x.n # 0
    [] x.t = "str" -> x.s # ""
    [] OTHER -> TRUE

\* Property access x.key that does not throw: own members of an object,
\* undefined on a primitive or an array (for the keys read here).
Get(x, key) ==
  IF x.t = "obj" /\ \E i \in 1..Len(x.o) : x.o[i][1] = key
  THEN x.o[CHOOSE i \in 1..Len(x.o) : x.o[i][1] = key][2]
  ELSE Undef

\* Property access throws a TypeError on null and undefined.
GetThrows(x) == x.t \in {"null", "undefined"}

\* Array.isArray
IsArray(x) == x.t = "arr"

\* Assignment o[key] = val: an existing member keeps its place.
Put(m, key, val) ==
  IF \E i \in 1..Len(m) : m[i][1] = key
  THEN [i \in 1..Len(m) |-> IF m[i][1] = key THEN <<key, val>> ELSE m[i]]
  ELSE Append(m, <<key, val>>)

(***************************************************************************)
(* Tokens of text.                                                         *)
(***************************************************************************)
TP(c) == [k |-> "p", p |-> c]
TStr(s) == [k |-> "str", s |-> s]
TNum(n) == [k |-> "num", n |-> n]
TLit(s) == [k |-> "lit", l |-> s]
TRaw(s) == [k |-> "raw", r |-> s]
NL == [k |-> "ws", w |-> "\n"]

IsP(tok, c) == tok.k = "p" /\ tok.p = c

\* String.prototype.indexOf('{'): 1-based here, 0 when absent (JS: -1).
IndexOfBrace(s) ==
  IF \E i \in 1..Len(s) : IsP(s[i], "{")
  THEN CHOOSE i \in 1..Len(s) :
         /\ IsP(s[i], "{")
         /\ \A j \in 1..(i - 1) : ~IsP(s[j], "{")
  ELSE 0

\* String.prototype.substring(start) with a 1-based start.
Substring(s, start) == SubSeq(s, start, Len(s))

(***************************************************************************)
(* JSON.stringify / json.dumps on the values above (compact separators).   *)
(***************************************************************************)
RECURSIVE Stringify(_), StringifyElems(_, _), StringifyMembers(_, _)
Stringify(x) ==
  CASE x.t = "null" -> <<TLit("null")>>
    [] x.t = "bool" -> <<TLit(IF x.b THEN "true" ELSE "false")>>
    [] x.t = "num" -> <<TNum(x.n)>>
    [] x.t = "str" -> <<TStr(x.s)>>
    [] x.t = "arr" -> <<TP("[")>> \o StringifyElems(x.a, 1) \o <<TP("]")>>
    [] x.t = "obj" -> <<TP("{")>> \o StringifyMembers(x.o, 1) \o <<TP("}")>>

StringifyElems(a, i) ==
  IF i > Len(a) THEN <<>>
  ELSE (IF i > 1 THEN <<TP(",")>> ELSE <<>>)
       \o Stringify(a[i]) \o StringifyElems(a, i + 1)

StringifyMembers(m, i) ==
  IF i > Len(m) THEN <<>>
  ELSE (IF i > 1 THEN <<TP(",")>> ELSE <<>>)
       \o <<TStr(m[i][1]), TP(":")>> \o Stringify(m[i][2])
       \o StringifyMembers(m, i + 1)

(***************************************************************************)
(* JSON.parse: a value with surrounding whitespace and nothing else;       *)
(* anything else throws a SyntaxError (ok = FALSE).                        *)
(***************************************************************************)
ParseFail == [ok |-> FALSE, val |-> Undef, next |-> 0]

RECURSIVE SkipWs(_, _)
SkipWs(s, i) ==
  IF i <= Len(s) /\ s[i].k = "ws" THEN SkipWs(s, i + 1) ELSE i

RECURSIVE ParseValue(_, _), ParseElems(_, _, _), ParseMembers(_, _, _)
ParseValue(s, i0) ==
  LET i == SkipWs(s, i0) IN
  IF i > Len(s) THEN ParseFail
  ELSE
    LET tok == s[i] IN
    CASE tok.k = "str" -> [ok |-> TRUE, val |-> Str(tok.s), next |-> i + 1]
      [] tok.k = "num" -> [ok |-> TRUE, val |-> Num(tok.n), next |-> i + 1]
      [] tok.k = "lit" ->
           [ok |-> TRUE,
            val |-> IF tok.l = "null" THEN Null ELSE Bool(tok.l = "true"),
            next |-> i + 1]
      [] IsP(tok, "[") ->
           LET j == SkipWs(s, i + 1) IN
           IF j <= Len(s) /\ IsP(s[j], "]")
           THEN [ok |-> TRUE, val |-> Arr(<<>>), next |-> j + 1]
           ELSE ParseElems(s, i + 1, <<>>)
      [] IsP(tok, "{") ->
           LET j == SkipWs(s, i + 1) IN
           IF j <= Len(s) /\ IsP(s[j], "}")
           THEN [ok |-> TRUE, val |-> Obj(<<>>), next |-> j + 1]
           ELSE ParseMembers(s, i + 1, <<>>)
      [] OTHER -> ParseFail

\* A value at i, then "," and more elements, or "]".
ParseElems(s, i, acc) ==
  LET r == ParseValue(s, i) IN
  IF ~r.ok THEN ParseFail
  ELSE
    LET j == SkipWs(s, r.next) IN
    IF j > Len(s) THEN ParseFail
    ELSE IF IsP(s[j], ",") THEN ParseElems(s, j + 1, Append(acc, r.val))
    ELSE IF IsP(s[j], "]")
      THEN [ok |-> TRUE, val |-> Arr(Append(acc, r.val)), next |-> j + 1]
    ELSE ParseFail

\* A string key at i, ":", a value, then "," and more members, or "}".
ParseMembers(s, i, acc) ==
  LET j == SkipWs(s, i) IN
  IF j > Len(s) \/ s[j].k # "str" THEN ParseFail
  ELSE
    LET c == SkipWs(s, j + 1) IN
    IF c > Len(s) \/ ~IsP(s[c], ":") THEN ParseFail
    ELSE
      LET r == ParseValue(s, c + 1) IN
      IF ~r.ok THEN ParseFail
      ELSE
        LET e == SkipWs(s, r.next)
            acc2 == Put(acc, s[j].s, r.val)
        IN
        IF e > Len(s) THEN ParseFail
        ELSE IF IsP(s[e], ",") THEN ParseMembers(s, e + 1, acc2)
        ELSE IF IsP(s[e], "}")
          THEN [ok |-> TRUE, val |-> Obj(acc2), next |-> e + 1]
        ELSE ParseFail

JSONParse(s) ==
  LET r == ParseValue(s, 1) IN
  IF r.ok /\ SkipWs(s, r.next) > Len(s)
  THEN [ok |-> TRUE, val |-> r.val]
  ELSE [ok |-> FALSE, val |-> Undef]

(***************************************************************************)
(* Template-literal conversion `${x}` (String(x)).                         *)
(***************************************************************************)
RECURSIVE JSText(_), JoinText(_, _)
JSText(x) ==
  CASE x.t = "undefined" -> "undefined"
    [] x.t = "null" -> "null"
    [] x.t = "bool" -> (IF x.b THEN "true" ELSE "false")
    [] x.t = "num" -> ToString(x.n)
    [] x.t = "str" -> x.s
    [] x.t = "arr" -> JoinText(x.a, 1)
    [] OTHER -> "[object Object]"

\* Array.prototype.join(","): null and undefined elements give "".
JoinText(a, i) ==
  IF i > Len(a) THEN ""
  ELSE (IF i > 1 THEN "," ELSE "")
       \o (IF a[i].t \in {"null", "undefined"} THEN "" ELSE JSText(a[i]))
       \o JoinText(a, i + 1)

\* A JavaScript string whose content is modelled text (a token sequence).
Text(s) == [t |-> "text", x |-> s]

(***************************************************************************)
(* A promise: settled at most once; resolve and reject after that are      *)
(* no-ops.  An outcome is what a handler asks for.                         *)
(***************************************************************************)
Resolved(v) == [how |-> "resolved", v |-> v]
Rejected(e) == [how |-> "rejected", v |-> e]

\* Mutant: a settled promise that a later resolve overwrites.
SettleLastWins(call, outcome) ==
  [call EXCEPT !.settled = outcome.how, !.value = outcome.v]

Settle(call, outcome) ==
  IF call.settled = "pending"
  THEN [call EXCEPT !.settled = outcome.how, !.value = outcome.v]
  ELSE call

(***************************************************************************)
(* queryFAISSVectorStore: the values its handlers resolve with.            *)
(***************************************************************************)
ExitAdvisory ==
  Arr(<<Str("RAG system temporarily unavailable. Using general medical knowledge."),
        Str("Please ensure the FAISS index is properly built from your medical documents.")>>)

ParseAdvisory ==
  Arr(<<Str("Error processing RAG query. Please check the system configuration.")>>)

LaunchAdvisory ==
  Arr(<<Str("RAG system unavailable. Please ensure Python dependencies are installed."),
        Str("Run: pip install -r requirements.txt")>>)

SyncAdvisory == Arr(<<Str("RAG system error. Using fallback response.")>>)

\* const jsonStart = stdout.indexOf('{');
\* const jsonString = jsonStart >= 0 ? stdout.substring(jsonStart) : stdout;
JsonString(stdout) ==
  LET jsonStart == IndexOfBrace(stdout) IN
  IF jsonStart >= 1 THEN Substring(stdout, jsonStart) ELSE stdout

\* The elements of a, each kept at its first place only.
RECURSIVE Dedup(_)
Dedup(a) ==
  IF a = <<>> THEN <<>>
  ELSE LET front == Dedup(SubSeq(a, 1, Len(a) - 1))
           last == a[Len(a)]
       IN IF \E i \in 1..Len(front) : front[i] = last
          THEN front ELSE Append(front, last)

\* Mutant: the chunks with duplicates removed.
RetrieveResultDedup(result) ==
  IF Truthy(Get(result, "error")) THEN Arr(<<Get(result, "error")>>)
  ELSE IF IsArray(Get(result, "chunks")) THEN Arr(Dedup(Get(result, "chunks").a))
  ELSE IF Truthy(Get(result, "chunks")) THEN Get(result, "chunks")
  ELSE Arr(<<>>)

\* if (result.error) resolve([result.error]) else resolve(result.chunks || [])
RetrieveResult(result) ==
  IF Truthy(Get(result, "error")) THEN Arr(<<Get(result, "error")>>)
  ELSE IF Truthy(Get(result, "chunks")) THEN Get(result, "chunks")
  ELSE Arr(<<>>)

\* The try block of the 'close' handler: a SyntaxError of JSON.parse and the
\* TypeError of reading .error of null both land in the catch.
RetrieveParsed(stdout) ==
  LET parsed == JSONParse(JsonString(stdout)) IN
  IF ~parsed.ok \/ GetThrows(parsed.val) THEN ParseAdvisory
  ELSE RetrieveResult(parsed.val)

\* Mutant: `if (code)` for `if (code !== 0)`: a null code reads as success.
RetrieveOnCloseTruthyCode(stdout, code) ==
  IF Truthy(code) THEN Resolved(ExitAdvisory)
  ELSE Resolved(RetrieveParsed(stdout))

\* Mutant: a catch block that logs the parse error and forgets to resolve.
RetrieveOnCloseSilentCatch(stdout, code) ==
  IF code # Num(0) THEN Resolved(ExitAdvisory)
  ELSE IF RetrieveParsed(stdout) = ParseAdvisory
  THEN [how |-> "pending", v |-> Undef]
  ELSE Resolved(RetrieveParsed(stdout))

\* pythonProcess.on('close', (code) => ...)
RetrieveOnClose(stdout, code) ==
  IF code # Num(0) THEN Resolved(ExitAdvisory)
  ELSE Resolved(RetrieveParsed(stdout))

\* pythonProcess.on('error', (error) => ...)
RetrieveOnError(error) == Resolved(LaunchAdvisory)

\* catch (error) { resolve([...]) } around spawn
RetrieveOnThrow(error) == Resolved(SyncAdvisory)

(***************************************************************************)
(* checkRAGSystemStatus: the statuses its handlers resolve with.           *)
(***************************************************************************)
Status(ready, message, details) ==
  [ready |-> ready, message |-> message, details |-> details]

StatusExitFailure(code) ==
  Status(Bool(FALSE),
         "RAG system check failed (exit code " \o JSText(code) \o ")",
         Obj(<< <<"code", code>> >>))

StatusSuccess(status) ==
  Status(Get(status, "ready"),
         IF Truthy(Get(status, "ready"))
         THEN "RAG system ready with " \o JSText(Get(status, "doc_count")) \o " documents"
         ELSE "RAG system not ready - please build FAISS index",
         status)

\* parseError instanceof Error ? parseError.message : String(parseError)
ParseErrorMessage(parsed) ==
  IF ~parsed.ok THEN "Unexpected token in JSON"
  ELSE "Cannot read properties of null (reading 'ready')"

StatusParseFailure(parsed, stdout) ==
  Status(Bool(FALSE),
         "Error parsing RAG system status",
         Obj(<< <<"parseError", Str(ParseErrorMessage(parsed))>>,
                <<"stdout", Text(stdout)>> >>))

StatusParsed(stdout) ==
  LET parsed == JSONParse(JsonString(stdout)) IN
  IF ~parsed.ok \/ GetThrows(parsed.val) THEN StatusParseFailure(parsed, stdout)
  ELSE StatusSuccess(parsed.val)

\* pythonProcess.on('close', (code) => ...)
StatusOnClose(stdout, code) ==
  IF code # Num(0) THEN Resolved(StatusExitFailure(code))
  ELSE Resolved(StatusParsed(stdout))

\* Mutant: an 'error' handler that rejects with the error.
StatusOnErrorRejects(error) == Rejected(Str(error))

\* pythonProcess.on('error', (error) => ...)
StatusOnError(error) ==
  Resolved(Status(Bool(FALSE), "Python environment not available",
                  Obj(<< <<"error", Str(error)>> >>)))

\* Mutant: a catch block that rejects with the error.
StatusOnThrowRejects(error) == Rejected(Str(error))

\* catch (error) { resolve({...}) } around spawn
StatusOnThrow(error) ==
  Resolved(Status(Bool(FALSE), "Error checking RAG system status",
                  Obj(<< <<"error", Str(error)>> >>)))

(***************************************************************************)
(* Inputs and the worker's behaviours.                                     *)
(***************************************************************************)
MaxCalls == 2
MaxTopK == 2
MaxNegTopK == 1
PipeBuf == 8
DefaultTopK == 5

Queries == {"", "hypertension"}
\* topK as the caller passes it: omitted, or an integer.
TopKs == {Undef} \cup {Num(n) : n \in (0 - MaxNegTopK)..MaxTopK}

\* What the worker prints before its payload.
Leads ==
  { <<>>,
    <<TRaw("UserWarning: slow tokenizer"), NL>>,
    <<TRaw("INFO loaded config "), TP("{"), TRaw("'dim': 384"), TP("}"), NL>> }

\* Payloads of the worker in query mode.
RetrievePayloads ==
  { Obj(<< <<"chunks", Arr(<<Str("b"), Str("a"), Str("b")>>)>>, <<"chunk_count", Num(3)>> >>),
    Obj(<< <<"chunks", Arr(<<Str("a"), Str("b")>>)>>, <<"chunk_count", Num(2)>> >>),
    Obj(<< <<"chunks", Arr(<<>>)>>, <<"chunk_count", Num(0)>> >>),
    Obj(<< <<"error", Str("RAG system not ready")>> >>),
    Obj(<< <<"error", Str("")>> >>),
    Obj(<< <<"error", Str("Query failed")>>, <<"chunks", Arr(<<Str("a")>>)>> >>),
    Obj(<< <<"error", Str("")>>, <<"chunks", Arr(<<Str("a")>>)>> >>),
    Obj(<< <<"error", Null>>, <<"chunks", Arr(<<Str("a"), Str("a")>>)>> >>),
    Obj(<< <<"chunks", Str("a")>> >>),
    Obj(<< <<"chunks", Arr(<<Num(7)>>)>> >>),
    Obj(<< <<"error", Num(7)>> >>),
    Obj(<<>>),
    Arr(<<Str("a")>>),
    Null }

\* Payloads of the worker in --check-status mode.
StatusPayloads ==
  { Obj(<< <<"ready", Bool(TRUE)>>, <<"has_index", Bool(TRUE)>>, <<"doc_count", Num(3)>> >>),
    Obj(<< <<"ready", Bool(FALSE)>>, <<"has_index", Bool(FALSE)>>, <<"doc_count", Num(0)>> >>),
    Obj(<< <<"ready", Bool(TRUE)>> >>),
    Obj(<< <<"has_index", Bool(TRUE)>>, <<"doc_count", Num(3)>> >>),
    Obj(<< <<"ready", Num(1)>>, <<"doc_count", Num(3)>> >>),
    Obj(<< <<"ready", Str("")>>, <<"doc_count", Num(0)>> >>),
    Obj(<< <<"ready", Null>> >>),
    Num(1),
    Null }

\* Output that is no payload at all: nothing, a traceback, a cut-off payload.
Malformed ==
  { <<>>,
    <<TRaw("Traceback (most recent call last)"), NL>>,
    <<TP("{"), TStr("chunks"), TP(":"), TP("[")>> }

\* print(json.dumps(payload)) after the leading text.
Printed(lead, payload) == lead \o Stringify(payload) \o <<NL>>

Outputs(kind) ==
  { Printed(lead, p) :
      lead \in Leads,
      p \in (IF kind = "retrieve" THEN RetrievePayloads ELSE StatusPayloads) }
  \cup Malformed

\* The code of a 'close' event: the exit status, or null for a signal.
ExitCodes == {Num(0), Num(1), Null}
\* The code of the 'close' event that follows a failed spawn (-errno).
SpawnFailCode == Num(-2)
\* error.message of a failed spawn.
LaunchErrors == {"spawn .venv/bin/python ENOENT", "spawn .venv/bin/python EACCES"}
\* error.message of an exception thrown by spawn itself.
ThrowErrors == {"The argument 'args[1]' must be a string without null bytes"}

(***************************************************************************)
(* State: one record per call of the bridge: its promise (settled, value), *)
(* its child process (proc, argv, what it has yet to print, the events     *)
(* handled so far) and its stdout buffer.  A call whose caller has taken   *)
(* the result keeps nothing but the kind "returned".                       *)
(***************************************************************************)
\* req is a request in the RAG chat handler, stream the body of a chat
\* response; both are described where their steps are.
VARIABLES calls, req, stream

vars == <<calls, req, stream>>

\* out is all the worker of the call prints in its life: stdout \o pending
\* for a worker that runs.
Idle ==
  [kind |-> "none", query |-> "", argv |-> <<>>,
   proc |-> "none", launchErr |-> "", out |-> <<>>, pending |-> <<>>,
   stdout |-> <<>>, events |-> <<>>, code |-> Undef,
   settled |-> "pending", value |-> Undef]

\* No response yet, no request being handled, no response body.
NoResponse == [status |-> 0, body |-> ""]
NoReq ==
  [pc |-> "none", question |-> Undef, report |-> Undef,
   ragStatus |-> Undef, retrievals |-> Undef, prompt |-> Undef,
   generated |-> "no", response |-> NoResponse]
NoStream ==
  [state |-> "none", endpoint |-> "", text |-> <<>>, lines |-> <<>>, sent |-> <<>>]

Init ==
  /\ calls = [c \in 1..MaxCalls |-> Idle]
  /\ req = NoReq
  /\ stream = NoStream

(***************************************************************************)
(* Starting a call: spawn(pythonExe, args, {stdio}) and what becomes of it.*)
(***************************************************************************)
\* How a spawn goes: it throws, it fails to launch (an 'error' event will
\* follow), or the worker runs and will print `out`.
Behaviours(kind) ==
  {[how |-> "throws", err |-> e, out |-> <<>>] : e \in ThrowErrors}
  \cup {[how |-> "failed", err |-> e, out |-> <<>>] : e \in LaunchErrors}
  \cup {[how |-> "running", err |-> "", out |-> o] : o \in Outputs(kind)}

\* topK: number = 5
EffectiveTopK(topK) == IF topK = Undef THEN Num(DefaultTopK) ELSE topK

\* [pythonScriptPath, query, '--top-k', topK.toString()]
RetrieveArgs(query, topK) ==
  <<"lib/rag_service.py", query, "--top-k", JSText(EffectiveTopK(topK))>>

\* [pythonScriptPath, '--check-status']
StatusArgs == <<"lib/rag_service.py", "--check-status">>

\* The call record once spawn has returned or thrown; onThrow is the outcome
\* of the catch block around it.
Spawn(kind, query, argv, b, onThrow) ==
  LET started == [Idle EXCEPT !.kind = kind, !.query = query, !.argv = argv] IN
  CASE b.how = "throws" -> Settle(started, onThrow)
    [] b.how = "failed" -> [started EXCEPT !.proc = "failed", !.launchErr = b.err]
    [] b.how = "running" ->
         [started EXCEPT !.proc = "running", !.out = b.out, !.pending = b.out]

\* queryFAISSVectorStore(query, topK)
Retrieve(c, query, topK, b) ==
  /\ calls[c].kind = "none"
  /\ calls' = [calls EXCEPT ![c] =
       Spawn("retrieve", query, RetrieveArgs(query, topK), b, RetrieveOnThrow(b.err))]

\* checkRAGSystemStatus()
CheckStatus(c, b) ==
  /\ calls[c].kind = "none"
  /\ calls' = [calls EXCEPT ![c] =
       Spawn("status", "", StatusArgs, b, StatusOnThrow(b.err))]

(***************************************************************************)
(* Events of the worker process.                                           *)
(***************************************************************************)
Min(a, b) == IF a <= b THEN a ELSE b

\* The sizes one 'data' event may carry: a full pipe buffer, or all there is.
DataSizes(call) == {Min(PipeBuf, Len(call.pending)), Len(call.pending)}

\* stdout += data.toString()
OnData(call, n) ==
  [call EXCEPT !.stdout = call.stdout \o SubSeq(call.pending, 1, n),
               !.pending = SubSeq(call.pending, n + 1, Len(call.pending))]

\* What a worker that has ended left in the pipe is still delivered.
CanData(call) == call.proc \in {"running", "exited"} /\ call.pending # <<>>

\* 'close' comes once the worker has ended and its stdout is drained, and
\* after the 'error' event of a failed spawn.
CanClose(call, code) ==
  \/ call.proc \in {"running", "exited"} /\ call.pending = <<>> /\ code \in ExitCodes
  \/ call.proc = "errored" /\ code = SpawnFailCode

Closed(call, code, outcome) ==
  Settle([call EXCEPT !.proc = "closed", !.code = code,
                      !.events = Append(call.events, "close")],
         outcome)

Errored(call, outcome) ==
  Settle([call EXCEPT !.proc = "errored",
                      !.events = Append(call.events, "error")],
         outcome)

\* Mutant: the buffer declared outside the function: the data of a worker
\* is appended to the buffer of every retrieval in flight.
RetrieveDataShared(c, n) ==
  /\ calls[c].kind = "retrieve"
  /\ CanData(calls[c])
  /\ calls' = [d \in DOMAIN calls |->
       IF d = c THEN OnData(calls[c], n)
       ELSE IF calls[d].kind = "retrieve" /\ calls[d].proc = "running"
       THEN [calls[d] EXCEPT !.stdout = @ \o SubSeq(calls[c].pending, 1, n)]
       ELSE calls[d]]

RetrieveData(c, n) ==
  /\ calls[c].kind = "retrieve"
  /\ CanData(calls[c])
  /\ calls' = [calls EXCEPT ![c] = OnData(calls[c], n)]

RetrieveClose(c, code) ==
  /\ calls[c].kind = "retrieve"
  /\ CanClose(calls[c], code)
  /\ calls' = [calls EXCEPT ![c] =
       Closed(calls[c], code, RetrieveOnClose(calls[c].stdout, code))]

RetrieveError(c) ==
  /\ calls[c].kind = "retrieve"
  /\ calls[c].proc = "failed"
  /\ calls' = [calls EXCEPT ![c] =
       Errored(calls[c], RetrieveOnError(calls[c].launchErr))]

\* Mutant: one stdout buffer for the module instead of one per call: the
\* data of a worker is appended to the buffer of every probe in flight.
StatusDataShared(c, n) ==
  /\ calls[c].kind = "status"
  /\ CanData(calls[c])
  /\ calls' = [d \in DOMAIN calls |->
       IF d = c THEN OnData(calls[c], n)
       ELSE IF calls[d].kind = "status" /\ calls[d].proc = "running"
       THEN [calls[d] EXCEPT !.stdout = @ \o SubSeq(calls[c].pending, 1, n)]
       ELSE calls[d]]

StatusData(c, n) ==
  /\ calls[c].kind = "status"
  /\ CanData(calls[c])
  /\ calls' = [calls EXCEPT ![c] = OnData(calls[c], n)]

StatusClose(c, code) ==
  /\ calls[c].kind = "status"
  /\ CanClose(calls[c], code)
  /\ calls' = [calls EXCEPT ![c] =
       Closed(calls[c], code, StatusOnClose(calls[c].stdout, code))]

StatusError(c) ==
  /\ calls[c].kind = "status"
  /\ calls[c].proc = "failed"
  /\ calls' = [calls EXCEPT ![c] =
       Errored(calls[c], StatusOnError(calls[c].launchErr))]

\* const x = await <call>: the caller resumes with the settled value, and
\* nothing of the call is kept.
Return(c) ==
  /\ calls[c].kind \in {"retrieve", "status"}
  /\ calls[c].settled # "pending"
  /\ calls' = [calls EXCEPT ![c] = [Idle EXCEPT !.kind = "returned"]]

\* Calls made one after the other, as a request handler that awaits each
\* makes them: the next call starts once the one before has returned.
NextCall ==
  {c \in DOMAIN calls :
     /\ calls[c].kind = "none"
     /\ \A d \in DOMAIN calls : d < c => calls[d].kind = "returned"}

Next ==
  \/ /\ \E c \in NextCall, q \in Queries, k \in TopKs,
          b \in Behaviours("retrieve") : Retrieve(c, q, k, b)
     /\ UNCHANGED <<req, stream>>
  \/ /\ \E c \in NextCall, b \in Behaviours("status") : CheckStatus(c, b)
     /\ UNCHANGED <<req, stream>>
  \/ /\ \E c \in DOMAIN calls : Return(c)
     /\ UNCHANGED <<req, stream>>
  \/ /\ \E c \in DOMAIN calls : \E n \in DataSizes(calls[c]) : RetrieveData(c, n)
     /\ UNCHANGED <<req, stream>>
  \/ /\ \E c \in DOMAIN calls, code \in ExitCodes \cup {SpawnFailCode} :
          RetrieveClose(c, code)
     /\ UNCHANGED <<req, stream>>
  \/ /\ \E c \in DOMAIN calls : RetrieveError(c)
     /\ UNCHANGED <<req, stream>>
  \/ /\ \E c \in DOMAIN calls : \E n \in DataSizes(calls[c]) : StatusData(c, n)
     /\ UNCHANGED <<req, stream>>
  \/ /\ \E c \in DOMAIN calls, code \in ExitCodes \cup {SpawnFailCode} :
          StatusClose(c, code)
     /\ UNCHANGED <<req, stream>>
  \/ /\ \E c \in DOMAIN calls : StatusError(c)
     /\ UNCHANGED <<req, stream>>

Spec == Init /\ [][Next]_vars

(***************************************************************************)
(* Vocabulary of the properties.                                           *)
(***************************************************************************)
\* The worker's outcome has reached the bridge: an event was handled, or
\* spawn threw.
Delivered(call) ==
  call.kind # "none" /\ (call.events # <<>> \/ call.proc = "none")

\* The worker ran and its 'close' event was handled with this code.
ClosedWith(call, code) == call.events = <<"close">> /\ call.code = code

\* The worker ran and ended with a code other than 0.
ExitedNonZero(call) == call.events = <<"close">> /\ call.code # Num(0)

\* A list of text snippets.
IsSnippetList(v) ==
  v.t = "arr" /\ \A i \in 1..Len(v.a) : v.a[i].t = "str"

HasKey(x, key) == x.t = "obj" /\ \E i \in 1..Len(x.o) : x.o[i][1] = key

\* The payload the bridge takes from stdout.
Payload(stdout) == JSONParse(JsonString(stdout))

\* The text of a '--top-k' argument that is 0 or negative.
NonPositiveText == {ToString(n) : n \in (0 - MaxNegTopK - 1)..0}

Launched(call) == call.proc = "running" \/ call.events = <<"close">>

(***************************************************************************)
(* C1.  retrieve never throws or rejects: whatever the worker does (spawn  *)
(* throws, launch error, any exit code, any stdout, any JSON payload), the *)
(* promise is resolved, and the resolved value is a list of text snippets. *)
(* The code resolves with whatever `chunks` holds, a list or not.          *)
(***************************************************************************)
C1_ResolvesToSnippetList ==
  \A c \in DOMAIN calls :
    calls[c].kind = "retrieve" =>
      /\ calls[c].settled # "rejected"
      /\ Delivered(calls[c]) =>
           calls[c].settled = "resolved" /\ IsSnippetList(calls[c].value)

\* The part of C1 the code keeps: no call is ever rejected, and every
\* delivered outcome resolves the call.
C1_NeverRejects ==
  \A c \in DOMAIN calls :
    /\ calls[c].settled # "rejected"
    /\ Delivered(calls[c]) => calls[c].settled = "resolved"

(***************************************************************************)
(* C2.  For a non-empty query, a worker that ends with any code other than *)
(* 0 (null included: killed by a signal) makes retrieve resolve, not       *)
(* reject, to the fixed two-element advisory, whatever it wrote to stdout. *)
(***************************************************************************)
C2_NonZeroExitAdvisory ==
  \A c \in DOMAIN calls :
    (calls[c].kind = "retrieve" /\ calls[c].query # "" /\ ExitedNonZero(calls[c]))
      => /\ calls[c].settled = "resolved"
         /\ calls[c].value =
              Arr(<<Str("RAG system temporarily unavailable. Using general medical knowledge."),
                    Str("Please ensure the FAISS index is properly built from your medical documents.")>>)

\* A worker killed by a signal after it printed a payload that would parse.
C2_Witness ==
  \E c \in DOMAIN calls :
    /\ calls[c].kind = "retrieve" /\ calls[c].query # ""
    /\ ClosedWith(calls[c], Null)
    /\ Payload(calls[c].stdout).ok
    /\ HasKey(Payload(calls[c].stdout).val, "chunks")
    /\ calls[c].settled = "resolved"
    /\ Len(calls[c].value.a) = 2

(***************************************************************************)
(* C3.  For a worker that exits 0 and whose stdout is arbitrary leading    *)
(* text followed by a valid structured payload at some offset, the payload *)
(* is what the call is answered from: the leading text is discarded and    *)
(* never makes the call a parse failure, also when it holds a '{'.         *)
(***************************************************************************)
C3_LeadingTextDiscarded ==
  \A c \in DOMAIN calls :
    ClosedWith(calls[c], Num(0)) =>
      \A i \in 1..Len(calls[c].stdout) :
        LET r == JSONParse(Substring(calls[c].stdout, i)) IN
        (r.ok /\ r.val.t = "obj") =>
          calls[c].value =
            IF calls[c].kind = "retrieve"
            THEN RetrieveResult(r.val) ELSE StatusSuccess(r.val)

(***************************************************************************)
(* C4.  When the worker exits 0 and its payload has an error field of      *)
(* value X, retrieve returns exactly [X], for every X (the empty string    *)
(* included) and whether or not the payload also has chunks.               *)
(***************************************************************************)
C4_ErrorFieldSurfaced ==
  \A c \in DOMAIN calls :
    (/\ calls[c].kind = "retrieve"
     /\ ClosedWith(calls[c], Num(0))
     /\ Payload(calls[c].stdout).ok
     /\ HasKey(Payload(calls[c].stdout).val, "error"))
      => calls[c].value = Arr(<<Get(Payload(calls[c].stdout).val, "error")>>)

(***************************************************************************)
(* C5.  When the worker exits 0 and its payload has a chunks list and no   *)
(* error, retrieve returns exactly that list: same elements, order and     *)
(* length, duplicates kept, not cut to topK;                               *)
(* {"chunks":["a","b"],"chunk_count":2} gives ["a","b"].                   *)
(***************************************************************************)
C5_ChunksReturnedAsIs ==
  \A c \in DOMAIN calls :
    (calls[c].kind = "retrieve" /\ ClosedWith(calls[c], Num(0))) =>
      /\ LET p == Payload(calls[c].stdout) IN
         (p.ok /\ HasKey(p.val, "chunks") /\ IsArray(Get(p.val, "chunks"))
            /\ ~HasKey(p.val, "error"))
           => calls[c].value = Get(p.val, "chunks")
      /\ calls[c].stdout =
           <<TP("{"), TStr("chunks"), TP(":"), TP("["), TStr("a"), TP(","),
             TStr("b"), TP("]"), TP(","), TStr("chunk_count"), TP(":"),
             TNum(2), TP("}"), NL>>
           => calls[c].value = Arr(<<Str("a"), Str("b")>>)

\* Three chunks, unsorted, one twice, for a call that asked for two.
C5_Witness ==
  \E c \in DOMAIN calls :
    /\ calls[c].kind = "retrieve" /\ ClosedWith(calls[c], Num(0))
    /\ calls[c].argv[4] = "2"
    /\ calls[c].settled = "resolved"
    /\ calls[c].value = Arr(<<Str("b"), Str("a"), Str("b")>>)

(***************************************************************************)
(* C6.  A topK of 0 or below is rejected or clamped before the worker is   *)
(* invoked: no worker is ever launched with a '--top-k' argument that is   *)
(* 0 or negative.                                                          *)
(***************************************************************************)
C6_TopKValidated ==
  \A c \in DOMAIN calls :
    (calls[c].kind = "retrieve" /\ Launched(calls[c]))
      => calls[c].argv[4] \notin NonPositiveText

(***************************************************************************)
(* C7.  When the worker fails to launch ('error' event), checkStatus       *)
(* resolves, never rejecting, to ready = false with the message "Python    *)
(* environment not available" and details carrying the launch error text;  *)
(* that stays the caller's result when a 'close' event with a non-zero     *)
(* code follows for the same failed launch.                                *)
(***************************************************************************)
C7_LaunchFailureStatus ==
  \A c \in DOMAIN calls :
    (calls[c].kind = "status" /\ calls[c].launchErr # "" /\ calls[c].events # <<>>)
      => /\ calls[c].settled = "resolved"
         /\ calls[c].value.ready = Bool(FALSE)
         /\ calls[c].value.message = "Python environment not available"
         /\ Get(calls[c].value.details, "error") = Str(calls[c].launchErr)

\* The 'close' event of the failed launch has been handled after its 'error'.
C7_Witness ==
  \E c \in DOMAIN calls :
    /\ calls[c].kind = "status"
    /\ calls[c].events = <<"error", "close">>
    /\ calls[c].code # Num(0)
    /\ calls[c].value.message = "Python environment not available"

(***************************************************************************)
(* C8.  checkStatus never rejects, and each failure path (non-zero exit,   *)
(* stdout that does not parse, failed launch, spawn throwing) resolves to  *)
(* a status whose ready is exactly false, with a diagnostic message and    *)
(* details.                                                                *)
(***************************************************************************)
\* The paths of checkRAGSystemStatus other than the parsed-payload one.
StatusFailurePath(call) ==
  \/ call.proc = "none"
  \/ call.launchErr # ""
  \/ ExitedNonZero(call)
  \/ ClosedWith(call, Num(0)) /\ ~Payload(call.stdout).ok
  \/ ClosedWith(call, Num(0)) /\ Payload(call.stdout).val = Null

StatusDiagnostics ==
  {"RAG system check failed (exit code 1)",
   "RAG system check failed (exit code null)",
   "Error parsing RAG system status",
   "Python environment not available",
   "Error checking RAG system status"}

C8_StatusFailuresNotReady ==
  \A c \in DOMAIN calls :
    calls[c].kind = "status" =>
      /\ calls[c].settled # "rejected"
      /\ (Delivered(calls[c]) /\ StatusFailurePath(calls[c])) =>
           /\ calls[c].settled = "resolved"
           /\ calls[c].value.ready = Bool(FALSE)
           /\ calls[c].value.message \in StatusDiagnostics
           /\ calls[c].value.details.t = "obj"
           /\ calls[c].value.details.o # <<>>

\* A parse failure: stdout that is text but no payload.
C8_Witness ==
  \E c \in DOMAIN calls :
    /\ calls[c].kind = "status"
    /\ ClosedWith(calls[c], Num(0))
    /\ calls[c].stdout # <<>>
    /\ ~Payload(calls[c].stdout).ok
    /\ calls[c].value.message = "Error parsing RAG system status"
    /\ Get(calls[c].value.details, "stdout") = Text(calls[c].stdout)

(***************************************************************************)
(* C9.  Every status checkStatus resolves to has a boolean ready and a     *)
(* string message, for every worker output, also when the payload omits    *)
(* ready or carries a non-boolean ready; and the message is the "ready     *)
(* with N documents" one exactly when ready is true.                       *)
(***************************************************************************)
ReadyMessages ==
  {"RAG system ready with " \o JSText(n) \o " documents" :
     n \in {Undef, Null, Num(0), Num(1), Num(3)}}

C9_ReadyIsBoolean ==
  \A c \in DOMAIN calls :
    (calls[c].kind = "status" /\ calls[c].settled = "resolved")
      => /\ calls[c].value.ready \in {Bool(TRUE), Bool(FALSE)}
         /\ (calls[c].value.message \in ReadyMessages)
              <=> (calls[c].value.ready = Bool(TRUE))

(***************************************************************************)
(* C10.  When the worker fails to launch, retrieve resolves to the         *)
(* install-dependencies advisory, not the non-zero-exit one, also when the *)
(* failed launch delivers a 'close' event with a non-zero code after the   *)
(* 'error' event.                                                          *)
(***************************************************************************)
C10_LaunchFailureAdvisory ==
  \A c \in DOMAIN calls :
    (calls[c].kind = "retrieve" /\ calls[c].launchErr # "" /\ calls[c].events # <<>>)
      => /\ calls[c].settled = "resolved"
         /\ calls[c].value =
              Arr(<<Str("RAG system unavailable. Please ensure Python dependencies are installed."),
                    Str("Run: pip install -r requirements.txt")>>)

C10_Witness ==
  \E c \in DOMAIN calls :
    /\ calls[c].kind = "retrieve"
    /\ calls[c].events = <<"error", "close">>
    /\ calls[c].code # Num(0)
    /\ calls[c].settled = "resolved"
    /\ calls[c].value.a[2] = Str("Run: pip install -r requirements.txt")

(***************************************************************************)
(* Calls in flight together.  The bridge is called from request handlers   *)
(* that run interleaved on the event loop (the chat handler, the status    *)
(* endpoint), so any number of calls may have their workers alive at once  *)
(* and the 'data', 'close' and 'error' events of different workers come in *)
(* any order.  Every call of SpecConc stays in the state, so that calls    *)
(* can be compared with earlier ones.                                      *)
(***************************************************************************)
ConcCalls == 2

\* What the workers of calls in flight together print: a payload that takes
\* more than one 'data' event, or a traceback.
ConcOutputs(kind) ==
  IF kind = "retrieve"
  THEN { Printed(<<>>, Obj(<< <<"chunks", Arr(<<Str("a"), Str("b")>>)>>,
                              <<"chunk_count", Num(2)>> >>)),
         <<TRaw("Traceback (most recent call last)"), NL>> }
  ELSE { Printed(<<>>, Obj(<< <<"ready", Bool(TRUE)>>, <<"has_index", Bool(TRUE)>>,
                              <<"doc_count", Num(3)>> >>)),
         <<TRaw("Traceback (most recent call last)"), NL>> }

ConcBehaviours(kind) ==
  {[how |-> "throws", err |-> e, out |-> <<>>] : e \in ThrowErrors}
  \cup {[how |-> "failed", err |-> "spawn .venv/bin/python ENOENT", out |-> <<>>]}
  \cup {[how |-> "running", err |-> "", out |-> o] : o \in ConcOutputs(kind)}

\* The worker process ends.  Until it does, the worker is alive: it may go
\* on for ever (a model download that stalls, a lock on the index), and
\* nothing of the bridge ends it.
Exit(c) ==
  /\ calls[c].proc = "running"
  /\ calls' = [calls EXCEPT ![c].proc = "exited"]

InitConc ==
  /\ calls = [c \in 1..ConcCalls |-> Idle]
  /\ req = NoReq
  /\ stream = NoStream

NextConc ==
  \/ /\ \E c \in DOMAIN calls, b \in ConcBehaviours("retrieve") :
          Retrieve(c, "hypertension", Num(DefaultTopK), b)
     /\ UNCHANGED <<req, stream>>
  \/ /\ \E c \in DOMAIN calls, b \in ConcBehaviours("status") : CheckStatus(c, b)
     /\ UNCHANGED <<req, stream>>
  \/ /\ \E c \in DOMAIN calls : \E n \in DataSizes(calls[c]) : RetrieveData(c, n)
     /\ UNCHANGED <<req, stream>>
  \/ /\ \E c \in DOMAIN calls, code \in ExitCodes \cup {SpawnFailCode} :
          RetrieveClose(c, code)
     /\ UNCHANGED <<req, stream>>
  \/ /\ \E c \in DOMAIN calls : RetrieveError(c)
     /\ UNCHANGED <<req, stream>>
  \/ /\ \E c \in DOMAIN calls : \E n \in DataSizes(calls[c]) : StatusData(c, n)
     /\ UNCHANGED <<req, stream>>
  \/ /\ \E c \in DOMAIN calls, code \in ExitCodes \cup {SpawnFailCode} :
          StatusClose(c, code)
     /\ UNCHANGED <<req, stream>>
  \/ /\ \E c \in DOMAIN calls : StatusError(c)
     /\ UNCHANGED <<req, stream>>
  \/ /\ \E c \in DOMAIN calls : Exit(c)
     /\ UNCHANGED <<req, stream>>

SpecConc == InitConc /\ [][NextConc]_vars

\* status.details.doc_count of a resolved status.
DocCount(status) == Get(status.details, "doc_count")

(***************************************************************************)
(* C11.  The probe is idempotent: two checkStatus calls whose workers      *)
(* print the same output and end with the same exit code resolve to        *)
(* statuses with the same ready, the same details.doc_count and the same   *)
(* message, whichever of them came first and whatever other calls were in  *)
(* flight meanwhile.                                                       *)
(***************************************************************************)
C11_ProbeIdempotent ==
  \A c, d \in DOMAIN calls :
    ( /\ calls[c].kind = "status" /\ calls[d].kind = "status"
      /\ calls[c].events = <<"close">> /\ calls[d].events = <<"close">>
      /\ calls[c].out = calls[d].out
      /\ calls[c].code = calls[d].code )
    => /\ calls[c].settled = "resolved" /\ calls[d].settled = "resolved"
       /\ calls[c].value.ready = calls[d].value.ready
       /\ DocCount(calls[c].value) = DocCount(calls[d].value)
       /\ calls[c].value.message = calls[d].value.message

\* Two probes of the same ready index in one run, both resolved ready with
\* its document count.
C11_Witness ==
  \E c, d \in DOMAIN calls :
    /\ c # d
    /\ calls[c].kind = "status" /\ calls[d].kind = "status"
    /\ ClosedWith(calls[c], Num(0)) /\ ClosedWith(calls[d], Num(0))
    /\ calls[c].out = calls[d].out
    /\ calls[c].value.ready = Bool(TRUE) /\ calls[d].value.ready = Bool(TRUE)
    /\ DocCount(calls[d].value) = Num(3)

\* What a call resolves to when its worker alone decides: the handler of the
\* first event of its worker, given all that worker printed.
OwnResult(call) ==
  IF call.kind = "retrieve"
  THEN (IF call.events[1] = "error" THEN RetrieveOnError(call.launchErr)
        ELSE RetrieveOnClose(call.out, call.code))
  ELSE (IF call.events[1] = "error" THEN StatusOnError(call.launchErr)
        ELSE StatusOnClose(call.out, call.code))

\* The worker of the call: its command line, its fate and its output.
Worker(call) == <<call.argv, call.launchErr, call.out>>

(***************************************************************************)
(* C12.  Calls are isolated.  A call has one worker for its whole life,    *)
(* its buffer holds what its own worker printed and nothing else, and with *)
(* any number of calls in flight and their events interleaved in any order *)
(* each call resolves to the result its own worker's output determines.    *)
(***************************************************************************)
C12_OwnBufferOwnResult ==
  \A c \in DOMAIN calls :
    /\ calls[c].proc \in {"running", "exited"} \/ calls[c].events = <<"close">>
         => calls[c].stdout \o calls[c].pending = calls[c].out
    /\ calls[c].events # <<>>
         => /\ calls[c].settled = "resolved"
            /\ calls[c].value = OwnResult(calls[c]).v

C12_OneWorkerPerCall ==
  \A c \in DOMAIN calls :
    calls[c].kind # "none" =>
      calls'[c].kind = calls[c].kind /\ Worker(calls'[c]) = Worker(calls[c])

C12_CallsIsolated == [](C12_OwnBufferOwnResult) /\ [][C12_OneWorkerPerCall]_vars

\* A retrieval has resolved to its worker's chunks while a probe launched
\* before the retrieval ended has part of its output delivered and part
\* still to come.
C12_Witness ==
  \E c, d \in DOMAIN calls :
    /\ calls[c].kind = "status"
    /\ calls[c].stdout # <<>> /\ calls[c].pending # <<>>
    /\ calls[d].kind = "retrieve"
    /\ ClosedWith(calls[d], Num(0))
    /\ calls[d].stdout # <<>>
    /\ calls[d].value = Arr(<<Str("a"), Str("b")>>)

\* What the handler of the i-th event of the call's worker would resolve to.
EventResult(call, i) ==
  IF call.kind = "retrieve"
  THEN (IF call.events[i] = "error" THEN RetrieveOnError(call.launchErr)
        ELSE RetrieveOnClose(call.stdout, call.code))
  ELSE (IF call.events[i] = "error" THEN StatusOnError(call.launchErr)
        ELSE StatusOnClose(call.stdout, call.code))

(***************************************************************************)
(* C16.  A call settles exactly once.  When both an 'error' and a 'close'  *)
(* event of the same worker are handled, the caller's value is the one the *)
(* handler of the first event chose; a settled call is resolved, and no    *)
(* later event changes, replaces or rejects its value.  (A failed launch   *)
(* delivers 'error' and then 'close'; no worker of the bridge delivers     *)
(* 'error' after 'close'.)                                                 *)
(***************************************************************************)
C16_FirstEventWins ==
  \A c \in DOMAIN calls :
    Len(calls[c].events) >= 1 =>
      /\ calls[c].settled = "resolved"
      /\ calls[c].value = EventResult(calls[c], 1).v

C16_NeverResettled ==
  \A c \in DOMAIN calls :
    calls[c].settled # "pending" =>
      calls'[c].settled = calls[c].settled /\ calls'[c].value = calls[c].value

C16_SettlesOnce == [](C16_FirstEventWins) /\ [][C16_NeverResettled]_vars

\* Both events of a failed launch were handled, and the handler of the
\* second one called resolve with another value than the caller has.
C16_Witness ==
  \E c \in DOMAIN calls :
    /\ calls[c].events = <<"error", "close">>
    /\ calls[c].settled = "resolved"
    /\ EventResult(calls[c], 2).v # EventResult(calls[c], 1).v
    /\ calls[c].value = EventResult(calls[c], 1).v

(***************************************************************************)
(* Progress.  Node delivers the events of a child process: the data left   *)
(* in the pipe and the 'close' event of a worker that has ended, the       *)
(* 'error' event of a worker that failed to launch and the 'close' that    *)
(* follows it.  Nothing makes a worker that is alive end.                  *)
(***************************************************************************)
Deliver(c) ==
  /\ calls[c].proc \in {"exited", "failed", "errored"}
  /\ \/ \E n \in DataSizes(calls[c]) : RetrieveData(c, n)
     \/ \E code \in ExitCodes \cup {SpawnFailCode} : RetrieveClose(c, code)
     \/ RetrieveError(c)
     \/ \E n \in DataSizes(calls[c]) : StatusData(c, n)
     \/ \E code \in ExitCodes \cup {SpawnFailCode} : StatusClose(c, code)
     \/ StatusError(c)
  /\ UNCHANGED <<req, stream>>

EventsDelivered == \A c \in 1..ConcCalls : WF_vars(Deliver(c))

SpecLive == SpecConc /\ EventsDelivered

(***************************************************************************)
(* C15.  A call resolves if and only if its worker delivers a 'close' or   *)
(* an 'error' event (or spawn throws).  Once the worker has ended or has   *)
(* failed to launch, the call eventually resolves; and as long as the      *)
(* worker neither ends nor fails the call stays pending, for the bridge    *)
(* has no timeout and no cancellation.                                     *)
(***************************************************************************)
C15_PendingUntilEvent ==
  \A c \in DOMAIN calls :
    calls[c].kind # "none" =>
      (calls[c].settled # "pending" <=> Delivered(calls[c]))

C15_ResolvesOnceEnded ==
  \A c \in 1..ConcCalls :
    (calls[c].proc \in {"exited", "failed"}) ~> (calls[c].settled = "resolved")

C15_ResolvesIffEvent == [](C15_PendingUntilEvent) /\ C15_ResolvesOnceEnded

\* A worker that is alive has had all its output read and its call is still
\* pending, while a call made since has resolved on its worker's 'close'.
C15_Witness ==
  \E c, d \in DOMAIN calls :
    /\ calls[c].proc = "running"
    /\ calls[c].stdout # <<>> /\ calls[c].pending = <<>>
    /\ calls[c].settled = "pending"
    /\ calls[d].events = <<"close">>
    /\ calls[d].settled = "resolved"

(***************************************************************************)
(* The RAG chat handler, POST of /api/ragchatgemini.  One request: the     *)
(* probe, then the retrieval or the fallback lines, the prompt, the        *)
(* generation call and the response.  Its two bridge calls are the calls   *)
(* "probe" and "retrieval"; both stay in the state once made.  The handler *)
(* runs from one await to the next in one step.                            *)
(***************************************************************************)
\* Request bodies: a message with a report, a messages array without one.
Bodies ==
  { Obj(<< <<"message", Str("Is my blood pressure high?")>>,
           <<"data", Obj(<< <<"reportData", Str("BP 150/95")>> >>)>> >>),
    Obj(<< <<"messages", Arr(<< Obj(<< <<"content", Str("hello")>> >>),
                                Obj(<< <<"content", Str("What does LDL mean?")>> >>) >>)>> >>) }

\* body.message || (body.messages && body.messages.length > 0
\*   ? body.messages[body.messages.length - 1].content : "")
UserQuestion(body) ==
  LET messages == Get(body, "messages") IN
  IF Truthy(Get(body, "message")) THEN Get(body, "message")
  ELSE IF Truthy(messages) /\ messages.t = "arr" /\ Len(messages.a) > 0
  THEN Get(messages.a[Len(messages.a)], "content")
  ELSE Str("")

\* body.data?.reportData || ""
ReportData(body) ==
  LET data == Get(body, "data") IN
  IF ~GetThrows(data) /\ Truthy(Get(data, "reportData"))
  THEN Get(data, "reportData")
  ELSE Str("")

\* The query template of the handler.
RouteQuery(report, question) ==
  "Patient medical context: " \o JSText(report) \o "\nUser question: "
  \o JSText(question) \o "\nFind relevant medical information:"

\* The lines used instead of a retrieval when the probe is not ready.
FallbackLines(ragStatus) ==
  Arr(<< Str("RAG system status: " \o ragStatus.message),
         Str("Using general medical knowledge for this query"),
         Str("To enable full RAG capabilities, please build the FAISS index using your medical documents") >>)

\* catch (error) { retrievals = [...] } around the retrieval
RetrievalCaught == Arr(<< Str("Could not retrieve medical references from RAG system") >>)

\* Array.isArray(retrievals) ? retrievals : [retrievals]
Normalise(retrievals) == IF IsArray(retrievals) THEN retrievals ELSE Arr(<<retrievals>>)

\* retrievals.map((r, i) => `${i + 1}. ${r}`)
Numbered(retrievals) ==
  [i \in 1..Len(retrievals.a) |-> ToString(i) \o ". " \o JSText(retrievals.a[i])]

\* The prompt: its four variable parts (the status marks are emoji in the code).
FinalPrompt(report, question, retrievals, ragStatus) ==
  [report |-> IF Truthy(report) THEN JSText(report) ELSE "No report provided",
   question |-> JSText(question),
   knowledge |-> IF Len(retrievals.a) > 0 THEN Numbered(retrievals)
                 ELSE <<"No additional references found">>,
   status |-> IF Truthy(ragStatus.ready)
              THEN "(check mark) Active - Using specialized medical knowledge base"
              ELSE "(warning sign) " \o ragStatus.message]

\* Mutant: the retrieval made whatever the probe said.
WantsRetrievalAlways(ragStatus) == TRUE

\* if (ragStatus.ready)
WantsRetrieval(ragStatus) == Truthy(ragStatus.ready)

\* The topK the handler passes to the bridge.
RouteTopK == 5

\* catch (error: any) { return new Response(`Error: ...`, {status: 500}) }
ErrorResponse(message) == [status |-> 500, body |-> "Error: " \o message]

(***************************************************************************)
(* The response body of a chat endpoint.  A text is a sequence of          *)
(* characters, a line a sequence of characters and literal pieces; the     *)
(* stream is the sequence of chunks enqueued so far.                       *)
(***************************************************************************)
RECURSIVE ReplaceAll(_, _, _)
\* text.replace(/ch/g, by)
ReplaceAll(text, ch, by) ==
  IF text = <<>> THEN <<>>
  ELSE (IF Head(text) = ch THEN by ELSE <<Head(text)>>)
       \o ReplaceAll(Tail(text), ch, by)

\* Mutant: the quotes escaped before the backslashes.
EscapeTextQuotesFirst(text) ==
  ReplaceAll(ReplaceAll(ReplaceAll(text, "\"", <<"\\", "\"">>),
                        "\\", <<"\\", "\\">>),
             "\n", <<"\\", "n">>)

\* text.replace(/\\/g, '\\\\').replace(/"/g, '\\"').replace(/\n/g, '\\n')
EscapeText(text) ==
  ReplaceAll(ReplaceAll(ReplaceAll(text, "\\", <<"\\", "\\">>),
                        "\"", <<"\\", "\"">>),
             "\n", <<"\\", "n">>)

\* `0:"${...}"`
TextLine(text) == <<"0", ":", "\"">> \o EscapeText(text) \o <<"\"">>

FinishLine ==
  <<"d:{\"finishReason\":\"stop\",\"usage\":{\"promptTokens\":0,\"completionTokens\":0}}">>

\* const lines = [...] of /api/ragchatgemini
RagStreamLines(text) == <<TextLine(text), FinishLine, <<>> >>

\* const lines = [...] of /api/medichatgemini
MediStreamLines(text) == <<TextLine(text), FinishLine, <<>> >>

StreamLinesOf(endpoint, text) ==
  IF endpoint = "medichatgemini" THEN MediStreamLines(text) ELSE RagStreamLines(text)

\* new ReadableStream({ start(controller) { const lines = [...]
StartStream(text) ==
  [stream EXCEPT !.state = "open", !.text = text,
                 !.lines = StreamLinesOf(stream.endpoint, text), !.sent = <<>>]

\* const text = response.text(): generation has succeeded.
Generated(text) ==
  /\ req.pc = "generate"
  /\ req' = [req EXCEPT !.pc = "stream", !.generated = "ok"]
  /\ stream' = StartStream(text)
  /\ UNCHANGED calls

\* model.generateContent or response.text() throws.
GenerationFails ==
  /\ req.pc = "generate"
  /\ req' = [req EXCEPT !.pc = "done", !.generated = "failed",
                        !.response = ErrorResponse("fetch failed")]
  /\ UNCHANGED <<calls, stream>>

\* controller.enqueue(encoder.encode(line + '\n'))
Enqueue ==
  /\ stream.state = "open"
  /\ Len(stream.sent) < Len(stream.lines)
  /\ stream' = [stream EXCEPT !.sent =
       Append(stream.sent, stream.lines[Len(stream.sent) + 1] \o <<"\n">>)]
  /\ UNCHANGED <<calls, req>>

\* controller.close(); return new Response(stream, ...)
CloseStream ==
  /\ stream.state = "open"
  /\ Len(stream.sent) = Len(stream.lines)
  /\ stream' = [stream EXCEPT !.state = "closed"]
  /\ req' = [req EXCEPT !.pc = "done", !.response = [status |-> 200, body |-> "stream"]]
  /\ UNCHANGED calls

(***************************************************************************)
(* Steps of the RAG chat handler.                                          *)
(***************************************************************************)
\* A worker in --check-status mode that reports an error of its own.
ProbeErrorOutputs ==
  { Printed(<<>>, Obj(<< <<"ready", Bool(FALSE)>>, <<"error", Str("Index not built")>> >>)),
    Printed(<<>>, Obj(<< <<"error", Str("No module named 'faiss'")>> >>)) }

ProbeBehaviours ==
  Behaviours("status")
  \cup {[how |-> "running", err |-> "", out |-> o] : o \in ProbeErrorOutputs}

\* The handler at the generation call, with these snippets.
ToGenerate(ragStatus, retrievals) ==
  [req EXCEPT !.pc = "generate", !.ragStatus = ragStatus,
              !.retrievals = Normalise(retrievals),
              !.prompt = FinalPrompt(req.report, req.question,
                                     Normalise(retrievals), ragStatus)]

\* POST(req) up to the await of the probe; req.json() rejects when the body
\* is not valid JSON.
Post(configured, valid, body) ==
  /\ req.pc = "none"
  /\ IF ~configured
     THEN /\ req' = [req EXCEPT !.pc = "done", !.response =
                 [status |-> 500,
                  body |-> "Error: Google API key not configured. Please set GOOGLE_API_KEY in your environment variables."]]
          /\ UNCHANGED calls
     ELSE IF ~valid
     THEN /\ req' = [req EXCEPT !.pc = "done",
                                !.response = ErrorResponse("Unexpected end of JSON input")]
          /\ UNCHANGED calls
     ELSE /\ req' = [req EXCEPT !.pc = "probe", !.question = UserQuestion(body),
                                !.report = ReportData(body)]
          /\ \E b \in ProbeBehaviours : CheckStatus("probe", b)
  /\ UNCHANGED stream

\* The handler resumes with ragStatus, up to the await of the retrieval or
\* of the generation.
AfterProbe ==
  /\ req.pc = "probe"
  /\ calls["probe"].settled # "pending"
  /\ IF calls["probe"].settled = "rejected"
     THEN /\ req' = [req EXCEPT !.pc = "done",
                                !.response = ErrorResponse("Internal server error")]
          /\ UNCHANGED calls
     ELSE IF WantsRetrieval(calls["probe"].value)
     THEN /\ req' = [req EXCEPT !.pc = "retrieve", !.ragStatus = calls["probe"].value]
          /\ \E b \in Behaviours("retrieve") :
               Retrieve("retrieval", RouteQuery(req.report, req.question),
                        Num(RouteTopK), b)
     ELSE /\ req' = ToGenerate(calls["probe"].value,
                               FallbackLines(calls["probe"].value))
          /\ UNCHANGED calls
  /\ UNCHANGED stream

\* The handler resumes with retrievals (or in the catch around the
\* retrieval), up to the await of the generation.
AfterRetrieve ==
  /\ req.pc = "retrieve"
  /\ calls["retrieval"].settled # "pending"
  /\ req' = ToGenerate(req.ragStatus,
                       IF \/ calls["retrieval"].settled = "rejected"
                          \/ GetThrows(calls["retrieval"].value)
                       THEN RetrievalCaught
                       ELSE calls["retrieval"].value)
  /\ UNCHANGED <<calls, stream>>

\* Texts the generation returns to the handler.
RouteTexts == { <<"O", "K">>, <<"\"", "a", "\\", "\n">> }

InitRoute ==
  /\ calls = [c \in {"probe", "retrieval"} |-> Idle]
  /\ req = NoReq
  /\ stream = [NoStream EXCEPT !.endpoint = "ragchatgemini"]

NextRoute ==
  \/ \E configured \in BOOLEAN, valid \in BOOLEAN, body \in Bodies :
        Post(configured, valid, body)
  \/ AfterProbe
  \/ AfterRetrieve
  \/ \E text \in RouteTexts : Generated(text)
  \/ GenerationFails
  \/ Enqueue
  \/ CloseStream
  \/ /\ \E c \in DOMAIN calls : \E n \in DataSizes(calls[c]) : StatusData(c, n)
     /\ UNCHANGED <<req, stream>>
  \/ /\ \E c \in DOMAIN calls, code \in ExitCodes \cup {SpawnFailCode} :
          StatusClose(c, code)
     /\ UNCHANGED <<req, stream>>
  \/ /\ \E c \in DOMAIN calls : StatusError(c)
     /\ UNCHANGED <<req, stream>>
  \/ /\ \E c \in DOMAIN calls : \E n \in DataSizes(calls[c]) : RetrieveData(c, n)
     /\ UNCHANGED <<req, stream>>
  \/ /\ \E c \in DOMAIN calls, code \in ExitCodes \cup {SpawnFailCode} :
          RetrieveClose(c, code)
     /\ UNCHANGED <<req, stream>>
  \/ /\ \E c \in DOMAIN calls : RetrieveError(c)
     /\ UNCHANGED <<req, stream>>
  \/ /\ \E c \in DOMAIN calls : Exit(c)
     /\ UNCHANGED <<req, stream>>

\* The event loop runs the handler when what it awaits has settled, and
\* delivers the events of workers that have ended or failed to launch.
HandlerStep == AfterProbe \/ AfterRetrieve \/ Enqueue \/ CloseStream

RouteFairness ==
  /\ WF_vars(HandlerStep)
  /\ \A c \in {"probe", "retrieval"} : WF_vars(Deliver(c))

SpecRoute == InitRoute /\ [][NextRoute]_vars /\ RouteFairness

\* The handler has the probe's answer.
ProbeTaken ==
  req.pc \in {"retrieve", "generate", "stream"}
  \/ (req.pc = "done" /\ req.generated # "no")

(***************************************************************************)
(* C14.  The probe gates the retrieval.  The probe has completed before    *)
(* any retrieval starts; the retrieval bridge is called, once and with     *)
(* top-k 5, only when the probe resolved ready; when the probe resolved    *)
(* not ready no retrieval worker is launched for the request and the       *)
(* snippets are the three fallback lines, the first one carrying the       *)
(* probe's message.  Ready is read as the handler reads it, by             *)
(* `if (ragStatus.ready)`: true, or another truthy value where the worker  *)
(* printed one.                                                            *)
(***************************************************************************)
C14_RetrievalOnlyWhenReady ==
  /\ calls["retrieval"].kind # "none" =>
       /\ calls["probe"].settled = "resolved"
       /\ ProbeTaken
       /\ req.ragStatus = calls["probe"].value
       /\ Truthy(req.ragStatus.ready)
       /\ calls["retrieval"].kind = "retrieve"
       /\ calls["retrieval"].argv =
            <<"lib/rag_service.py", RouteQuery(req.report, req.question), "--top-k", "5">>
  /\ ProbeTaken =>
       /\ calls["probe"].settled = "resolved"
       /\ req.ragStatus = calls["probe"].value
       /\ req.ragStatus.ready = Bool(TRUE) => calls["retrieval"].kind = "retrieve"
       /\ Truthy(req.ragStatus.ready) => calls["retrieval"].kind = "retrieve"
       /\ ~Truthy(req.ragStatus.ready) =>
            /\ calls["retrieval"].kind = "none"
            /\ req.retrievals =
                 Arr(<< Str("RAG system status: " \o req.ragStatus.message),
                        Str("Using general medical knowledge for this query"),
                        Str("To enable full RAG capabilities, please build the FAISS index using your medical documents") >>)

C14_RetrievalLaunchedOnce ==
  calls["retrieval"].kind # "none" =>
    /\ calls'["retrieval"].kind = calls["retrieval"].kind
    /\ Worker(calls'["retrieval"]) = Worker(calls["retrieval"])

C14_ProbeGatesRetrieval ==
  [](C14_RetrievalOnlyWhenReady) /\ [][C14_RetrievalLaunchedOnce]_vars

\* The probe of a built index has resolved ready and the retrieval worker of
\* the request is running with --top-k 5.
C14_Witness ==
  /\ req.pc = "retrieve"
  /\ ClosedWith(calls["probe"], Num(0))
  /\ req.ragStatus.ready = Bool(TRUE)
  /\ calls["retrieval"].proc = "running"
  /\ calls["retrieval"].argv[4] = "5"

\* The probe's worker failed to launch: no retrieval is made and the handler
\* is at the generation call with the fallback lines.
C14_WitnessNotReady ==
  /\ req.pc = "generate"
  /\ calls["probe"].events # <<>> /\ calls["probe"].launchErr # ""
  /\ calls["retrieval"].kind = "none"
  /\ req.retrievals.a[1] = Str("RAG system status: Python environment not available")

(***************************************************************************)
(* The four kinds of failure of a worker, as the bridge meets them.        *)
(***************************************************************************)
LaunchFailure(call) == call.launchErr # "" /\ call.events # <<>>
ExitFailure(call) == ExitedNonZero(call)
ParseFailure(call) ==
  /\ ClosedWith(call, Num(0))
  /\ ~Payload(call.stdout).ok \/ GetThrows(Payload(call.stdout).val)
ReportedError(call) ==
  /\ ClosedWith(call, Num(0))
  /\ Payload(call.stdout).ok
  /\ HasKey(Payload(call.stdout).val, "error")

Failed(call) ==
  LaunchFailure(call) \/ ExitFailure(call) \/ ParseFailure(call) \/ ReportedError(call)

\* The placeholder snippets that stand for a failed retrieval: the advisory
\* of the kind of failure, or what the bridge made of the reported error.
Placeholder(call) ==
  CASE LaunchFailure(call) -> LaunchAdvisory
    [] ExitFailure(call) -> ExitAdvisory
    [] ParseFailure(call) -> ParseAdvisory
    [] OTHER -> Normalise(call.value)

\* The knowledge section of a prompt made of these snippets.
Knowledge(snippets) ==
  IF Len(snippets.a) = 0 THEN <<"No additional references found">>
  ELSE [i \in 1..Len(snippets.a) |-> ToString(i) \o ". " \o JSText(snippets.a[i])]

\* The handler is at the generation call or past it.
AtGeneration ==
  req.pc \in {"generate", "stream"} \/ (req.pc = "done" /\ req.generated # "no")

(***************************************************************************)
(* C13.  Losing retrieval never blocks the chat response.  Whichever of    *)
(* the four kinds of failure (launch failure, non-zero exit, payload parse *)
(* failure, worker-reported error) happens in the probe or in the          *)
(* retrieval, the handler reaches the generation call, with a prompt that  *)
(* holds the placeholder snippets; and when the generation succeeds the    *)
(* handler returns the streaming response, not an error response.          *)
(***************************************************************************)
C13_PlaceholdersInPrompt ==
  AtGeneration =>
    /\ Failed(calls["probe"]) =>
         /\ calls["retrieval"].kind = "none"
         /\ req.prompt.knowledge =
              << "1. RAG system status: " \o calls["probe"].value.message,
                 "2. Using general medical knowledge for this query",
                 "3. To enable full RAG capabilities, please build the FAISS index using your medical documents" >>
    /\ Failed(calls["retrieval"]) =>
         req.prompt.knowledge = Knowledge(Placeholder(calls["retrieval"]))

C13_NoErrorResponseFromBridge ==
  /\ req.response.status = 500 =>
       calls["probe"].kind = "none" \/ req.generated = "failed"
  /\ (req.pc = "done" /\ req.generated = "ok") =>
       req.response.status = 200 /\ stream.state = "closed"

C13_ReachesGeneration ==
  \A c \in {"probe", "retrieval"} : Failed(calls[c]) ~> AtGeneration

C13_StreamsWhenGenerated ==
  (req.generated = "ok") ~> (req.pc = "done" /\ req.response.status = 200)

C13_RetrievalNeverBlocks ==
  /\ [](C13_PlaceholdersInPrompt /\ C13_NoErrorResponseFromBridge)
  /\ C13_ReachesGeneration
  /\ C13_StreamsWhenGenerated

\* The retrieval worker of a ready index ended with a non-zero code, and the
\* handler has returned the streaming response made from a prompt that holds
\* the advisory.
C13_Witness ==
  /\ ExitFailure(calls["retrieval"])
  /\ req.pc = "done"
  /\ req.generated = "ok"
  /\ req.response.status = 200
  /\ stream.state = "closed"
  /\ req.prompt.knowledge = Knowledge(ExitAdvisory)

(***************************************************************************)
(* The stream of either chat endpoint, for every generated text up to a    *)
(* length: the endpoint is at its generation call, as the RAG chat handler *)
(* is after ToGenerate and the Pinecone chat handler after its own         *)
(* retrieval.                                                              *)
(***************************************************************************)
MaxTextLen == 3

\* A letter, the letter n (which follows the backslash in an escaped
\* newline), a carriage return (passed on as it is: the lines of the stream
\* end with a newline), and the three characters the endpoints escape.
Chars == {"a", "n", "\r", "\"", "\\", "\n"}

Texts == UNION {[1..len -> Chars] : len \in 0..MaxTextLen}

Endpoints == {"ragchatgemini", "medichatgemini"}

InitStream ==
  /\ calls = <<>>
  /\ req = [NoReq EXCEPT !.pc = "generate"]
  /\ stream \in {[NoStream EXCEPT !.endpoint = e] : e \in Endpoints}

NextStream ==
  \/ \E text \in Texts : Generated(text)
  \/ GenerationFails
  \/ Enqueue
  \/ CloseStream

SpecStream == InitStream /\ [][NextStream]_vars

RECURSIVE Unescape(_)
\* What a reader of the text line makes of the characters between its
\* quotes: the escapes undone; not ok on a quote or a newline that is not
\* escaped and on a backslash that escapes nothing.
Unescape(s) ==
  IF s = <<>> THEN [ok |-> TRUE, text |-> <<>>]
  ELSE IF Head(s) = "\\"
  THEN IF Len(s) >= 2 /\ s[2] \in {"\\", "\"", "n"}
       THEN LET rest == Unescape(SubSeq(s, 3, Len(s))) IN
            [ok |-> rest.ok,
             text |-> <<IF s[2] = "n" THEN "\n" ELSE s[2]>> \o rest.text]
       ELSE [ok |-> FALSE, text |-> <<>>]
  ELSE IF Head(s) \in {"\"", "\n"} THEN [ok |-> FALSE, text |-> <<>>]
  ELSE LET rest == Unescape(Tail(s)) IN
       [ok |-> rest.ok, text |-> <<Head(s)>> \o rest.text]

\* The chunk is one line 0:"..." that encodes the text: no newline before
\* its last character, and between the quotes the text with every quote,
\* backslash and newline escaped.
IsTextLine(chunk, text) ==
  /\ Len(chunk) >= 5
  /\ SubSeq(chunk, 1, 3) = <<"0", ":", "\"">>
  /\ chunk[Len(chunk) - 1] = "\""
  /\ chunk[Len(chunk)] = "\n"
  /\ \A i \in 1..(Len(chunk) - 1) : chunk[i] # "\n"
  /\ Unescape(SubSeq(chunk, 4, Len(chunk) - 2)).ok
  /\ Unescape(SubSeq(chunk, 4, Len(chunk) - 2)).text = text

RECURSIVE Flatten(_)
\* The bytes of the stream: its chunks one after the other.
Flatten(chunks) ==
  IF chunks = <<>> THEN <<>> ELSE Head(chunks) \o Flatten(Tail(chunks))

RECURSIVE SplitLines(_, _)
\* The lines of the stream, cut at each newline; cur is the line being read.
SplitLines(bytes, cur) ==
  IF bytes = <<>> THEN <<cur>>
  ELSE IF Head(bytes) = "\n" THEN <<cur>> \o SplitLines(Tail(bytes), <<>>)
  ELSE SplitLines(Tail(bytes), Append(cur, Head(bytes)))

NonEmptyLines(chunks) ==
  SelectSeq(SplitLines(Flatten(chunks), <<>>), LAMBDA line : line # <<>>)

(***************************************************************************)
(* C17.  On a successful generation the stream of either chat endpoint     *)
(* carries, in this order and nothing else, one text line 0:"..." that     *)
(* encodes the whole generated text, then the d:{...} line as the last     *)
(* non-empty line, and is then closed.  For every generated text, with     *)
(* newlines, double quotes and backslashes in it, the text line holds no   *)
(* raw newline and no unescaped double quote: the text takes one line.     *)
(***************************************************************************)
C17_TextLineThenFinishLine ==
  stream.state # "none" =>
    /\ Len(stream.sent) <= 3
    /\ Len(stream.sent) >= 1 => IsTextLine(stream.sent[1], stream.text)
    /\ Len(stream.sent) >= 2 => stream.sent[2] = FinishLine \o <<"\n">>
    /\ Len(stream.sent) >= 3 => stream.sent[3] = <<"\n">>
    /\ stream.state = "closed" =>
         /\ Len(stream.sent) = 3
         /\ Len(NonEmptyLines(stream.sent)) = 2
         /\ NonEmptyLines(stream.sent)[1] \o <<"\n">> = stream.sent[1]
         /\ NonEmptyLines(stream.sent)[2] = FinishLine

C17_InOrderThenClosed ==
  /\ stream.state = "open" =>
       \/ stream'.sent = stream.sent
       \/ /\ Len(stream'.sent) = Len(stream.sent) + 1
          /\ SubSeq(stream'.sent, 1, Len(stream.sent)) = stream.sent
          /\ stream'.state = "open"
  /\ stream.state = "closed" => stream' = stream

C17_StreamFormat == [](C17_TextLineThenFinishLine) /\ [][C17_InOrderThenClosed]_vars

\* The stream of the Pinecone chat endpoint is closed after a text made of a
\* double quote, a backslash and a newline.
C17_Witness ==
  /\ stream.endpoint = "medichatgemini"
  /\ stream.state = "closed"
  /\ stream.text = <<"\"", "\\", "\n">>
  /\ Len(stream.sent) = 3

====
